---- MODULE Spec2Model ----
(***************************************************************************)
(* VectorStoreManager (src/vector_store.py): a Chroma vector store kept in *)
(* step with a corpus of source files through a persisted cache            *)
(* (processed_files.json) of content hashes.                               *)
(*                                                                         *)
(* The state is the environment the manager works on (the vector store,    *)
(* the cache file on disk) and the manager object itself (its in-memory    *)
(* processed_files dict).  Each public method is one action; a call may    *)
(* raise at any of its steps, and the step at which it raises is an input  *)
(* of the action, as is the content the call finds in the file.            *)
(***************************************************************************)
EXTENDS Integers, Sequences, FiniteSets, TLC

\* ------------------------------------------------------------------ bounds

\* The source files of the corpus.
Paths == {"docs/a.pdf", "docs/b.pdf"}

\* The byte contents a file can have.
Contents == {"c1", "c2"}

\* The longest chunk list handed to process_document.
MaxChunks == 1

\* The lengths of the chunk lists handed to process_document: the empty
\* list and the longest one.  (A store holds the lengths in between after
\* an add that raised part-way.)
ChunkCounts == {0, MaxChunks}

\* The last reading of the clock.
MaxClock == 1

\* The number of calls that raise in a run.
MaxFailures == 1

\* The manager objects that work on the same store directory at once.
Writers == {"w1", "w2"}

\* The number of calls of process_document the writers begin, together.
MaxCalls == 4

\* Python's None, and the value of dict.get on a missing key.
None == "None"

\* ------------------------------------------------------------ pure helpers

\* hashlib.sha256(content).hexdigest(): one digest per content, no collisions
\* among the contents of the model.
sha256(content) ==
    CASE content = "c1" -> "h1"
      [] content = "c2" -> "h2"

Hashes == {sha256(c) : c \in Contents}

\* os.path.basename
basename(p) ==
    CASE p = "docs/a.pdf" -> "a.pdf"
      [] p = "docs/b.pdf" -> "b.pdf"

\* d.get(k, default) of a Python dict (a function on its keys).
DictGet(d, k, default) ==
    IF k \in DOMAIN d THEN d[k] ELSE default

\* d[k] = v of a Python dict.
DictSet(d, k, v) ==
    [x \in DOMAIN d \cup {k} |-> IF x = k THEN v ELSE d[x]]

\* {}
EmptyDict == << >>

\* datetime.datetime.now().isoformat(): the clock reading as a string.
isoformat(t) ==
    <<"iso", t>>

\* A chunk list of n Documents as load_and_process_pdf leaves them: the
\* metadata names the file by its base name.
Documents(p, n) ==
    [i \in 1..n |-> [metadata |-> [source_file |-> basename(p)]]]

\* ------------------------------------------------------------------- state

VARIABLES
    vector_db,        \* the Chroma collection: a set of [id, metadata]
    processed_files,  \* the manager's in-memory cache dict
    cache_file,       \* processed_files.json on disk
    up,               \* a manager object exists (its construction succeeded)
    now,              \* the clock
    failures,         \* the number of calls that have raised
    last,             \* the last manager call
    prev,             \* the call before it, summarised
    managers,         \* the writers: each one's dict and the call it is in
    order             \* the writers whose add and whose save came last

vars == <<vector_db, processed_files, cache_file, up, now, failures, last, prev,
          managers, order>>

\* ------------------------------------------------------------ cache file

\* json_dump, writing the date of last_processed without its time.
json_dump_date_only(pf) ==
    {<<p, pf[p].hash, pf[p].num_chunks, isoformat(0)>> : p \in DOMAIN pf}

\* json.dump(processed_files, f): the JSON object of the dict, one member
\* per key, each holding the three fields of the record.
json_dump(pf) ==
    {<<p, pf[p].hash, pf[p].num_chunks, pf[p].last_processed>> : p \in DOMAIN pf}

\* json.load(f): the dict of the members of the JSON object.
json_load(text) ==
    [p \in {m[1] : m \in text} |->
        LET m == CHOOSE e \in text : e[1] = p
        IN  [hash |-> m[2], num_chunks |-> m[3], last_processed |-> m[4]]]

FileAbsent == [state |-> "absent", text |-> {}]

FileCorrupt == [state |-> "corrupt", text |-> {}]

\* _save_cache, never writing.
_save_cache_noop(pf, file, fail) ==
    file

\* _save_cache: open(cache_file, 'w') truncates the file, json.dump writes
\* it.  A failure of makedirs or open leaves the file as it was; a failure
\* while writing leaves a truncated file that no longer parses.
_save_cache(pf, file, fail) ==
    CASE fail = "open"  -> file
      [] fail = "write" -> FileCorrupt
      [] OTHER          -> [state |-> "ok", text |-> json_dump(pf)]

\* _load_cache, resetting a cache file that does not parse.
_load_cache_reset(file) ==
    CASE file.state = "ok"      -> [raised |-> FALSE, pf |-> json_load(file.text),
                                    file |-> file]
      [] OTHER                  -> [raised |-> FALSE, pf |-> EmptyDict,
                                    file |-> _save_cache(EmptyDict, file, "none")]

\* _load_cache: the dict read from an existing file; an absent file gives
\* the empty dict and is created.  A file that does not parse raises.
_load_cache(file) ==
    CASE file.state = "ok"      -> [raised |-> FALSE, pf |-> json_load(file.text),
                                    file |-> file]
      [] file.state = "absent"  -> [raised |-> FALSE, pf |-> EmptyDict,
                                    file |-> _save_cache(EmptyDict, file, "none")]
      [] file.state = "corrupt" -> [raised |-> TRUE, pf |-> EmptyDict,
                                    file |-> file]

\* ---------------------------------------------------------- vector store

\* self.vector_db.delete(ids)
vector_db_delete(db, ids) ==
    {r \in db : r.id \notin ids}

\* uuid4, drawing the same ids for every batch of a path.
uuid4_reuse(used, salt, i) ==
    <<salt, 0, i>>

\* uuid.uuid4(): an id that is not and was not in use.  The store takes an
\* id as an opaque key, so which fresh id is drawn does not matter: the i-th
\* document of a batch for `salt` gets <<salt, g, i>>, g the first
\* generation that no id in `used` has under that salt.
uuid4(used, salt, i) ==
    LET taken == {id[2] : id \in {u \in used : u[1] = salt}}
        g == CHOOSE k \in 0..Cardinality(taken) : k \notin taken
    IN  <<salt, g, i>>

\* self.vector_db.add_documents(docs): one record per document, each under
\* a fresh id.
add_documents(db, docs, used) ==
    db \cup {[id |-> uuid4(used, docs[i].metadata.source_file, i),
              metadata |-> docs[i].metadata] : i \in DOMAIN docs}

\* _remove_existing_documents, deleting the records of every file.
_remove_existing_documents_all(db, file_path) ==
    LET ids_to_delete == {r.id : r \in db}
    IN  IF ids_to_delete # {} THEN vector_db_delete(db, ids_to_delete) ELSE db

\* _remove_existing_documents, looking for the base name the chunker wrote.
_remove_existing_documents_by_basename(db, file_path) ==
    LET ids_to_delete ==
            {r.id : r \in {x \in db :
                DictGet(x.metadata, "source_file", None) = basename(file_path)}}
    IN  IF ids_to_delete # {} THEN vector_db_delete(db, ids_to_delete) ELSE db

\* _remove_existing_documents: delete the records whose source_file is the
\* path, if there are any.
_remove_existing_documents(db, file_path) ==
    LET ids_to_delete ==
            {r.id : r \in {x \in db :
                DictGet(x.metadata, "source_file", None) = file_path}}
    IN  IF ids_to_delete # {} THEN vector_db_delete(db, ids_to_delete) ELSE db

\* _get_file_hash: the digest of the bytes read from the file.  The files
\* change freely between calls, so the content a call finds is its input.
_get_file_hash(content) ==
    sha256(content)

\* Stamped, without the file_hash stamp.
Stamped_no_hash(docs, current_hash, file_path) ==
    [i \in DOMAIN docs |->
        [metadata |-> DictSet(docs[i].metadata, "source_file", file_path)]]

\* Stamped, keeping the source_file the chunker wrote.
Stamped_keep_source(docs, current_hash, file_path) ==
    [i \in DOMAIN docs |->
        [metadata |-> DictSet(docs[i].metadata, "file_hash", current_hash)]]

\* The documents stamped with the file's hash and path (lines 84-86).
Stamped(docs, current_hash, file_path) ==
    [i \in DOMAIN docs |->
        [metadata |-> DictSet(DictSet(docs[i].metadata, "file_hash", current_hash),
                              "source_file", file_path)]]

\* The records of the store whose source_file is p.
RecordsOf(db, p) ==
    {r \in db : DictGet(r.metadata, "source_file", None) = p}

\* The hash of the dict's record for p (None if it has no record).
CacheHash(pf, p) ==
    DictGet(DictGet(pf, p, EmptyDict), "hash", None)

\* --------------------------------------------------------------- methods

\* The steps of process_document at which a call can raise: reading the
\* file, listing or deleting the old records, adding the new ones, opening
\* the cache file, writing it.
ProcessFailures == {"hash", "delete", "add", "open", "write"}

\* The steps of clear_all at which a call can raise.
ClearFailures == {"delete", "open", "write"}

\* What a call leaves: its result and the store, the dict and the file.
Outcome(ret, db, pf, file) ==
    [ret |-> ret, db |-> db, pf |-> pf, file |-> file]

\* Unchanged, reading the record's hash under the key of the metadata.
Unchanged_wrong_key(pf, file_path, current_hash) ==
    LET file_info == DictGet(pf, file_path, EmptyDict)
    IN  DictGet(file_info, "file_hash", None) = current_hash

\* The cache check of process_document (lines 73-76): the file has a record
\* and its hash is the current one.
Unchanged(pf, file_path, current_hash) ==
    LET file_info == DictGet(pf, file_path, EmptyDict)
    IN  DictGet(file_info, "hash", None) = current_hash

\* The record process_document writes into the cache (lines 92-96).
CacheRecord(current_hash, docs, t) ==
    [hash |-> current_hash, num_chunks |-> Len(docs), last_processed |-> isoformat(t)]

\* process_document, refreshing the cache record of an unchanged file.
process_document_touch(file_path, content, docs, fail, k) ==
    LET current_hash == _get_file_hash(content)
        removed == _remove_existing_documents(vector_db, file_path)
        stamped == Stamped(docs, current_hash, file_path)
        added == add_documents(removed, stamped, {r.id : r \in vector_db})
        partly == add_documents(removed, SubSeq(stamped, 1, k), {r.id : r \in vector_db})
        updated == DictSet(processed_files, file_path,
                           CacheRecord(current_hash, docs, now))
    IN  IF fail = "hash"
        THEN Outcome("error", vector_db, processed_files, cache_file)
        ELSE IF Unchanged(processed_files, file_path, current_hash)
        THEN Outcome("False", vector_db, updated,
                     _save_cache(updated, cache_file, "none"))
        ELSE IF fail = "delete"
        THEN Outcome("error", vector_db, processed_files, cache_file)
        ELSE IF fail = "add"
        THEN Outcome("error", partly, processed_files, cache_file)
        ELSE IF fail \in {"open", "write"}
        THEN Outcome("error", added, updated, _save_cache(updated, cache_file, fail))
        ELSE Outcome("True", added, updated, _save_cache(updated, cache_file, "none"))

\* process_document, returning early on an empty chunk list.
process_document_skip_empty(file_path, content, docs, fail, k) ==
    LET current_hash == _get_file_hash(content)
        removed == _remove_existing_documents(vector_db, file_path)
        stamped == Stamped(docs, current_hash, file_path)
        added == add_documents(removed, stamped, {r.id : r \in vector_db})
        partly == add_documents(removed, SubSeq(stamped, 1, k), {r.id : r \in vector_db})
        updated == DictSet(processed_files, file_path,
                           CacheRecord(current_hash, docs, now))
    IN  IF fail = "hash"
        THEN Outcome("error", vector_db, processed_files, cache_file)
        ELSE IF Unchanged(processed_files, file_path, current_hash) \/ docs = << >>
        THEN Outcome("False", vector_db, processed_files, cache_file)
        ELSE IF fail = "delete"
        THEN Outcome("error", vector_db, processed_files, cache_file)
        ELSE IF fail = "add"
        THEN Outcome("error", partly, processed_files, cache_file)
        ELSE IF fail \in {"open", "write"}
        THEN Outcome("error", added, updated, _save_cache(updated, cache_file, fail))
        ELSE Outcome("True", added, updated, _save_cache(updated, cache_file, "none"))

\* process_document, saving the cache record before the store is replaced.
process_document_save_first(file_path, content, docs, fail, k) ==
    LET current_hash == _get_file_hash(content)
        removed == _remove_existing_documents(vector_db, file_path)
        stamped == Stamped(docs, current_hash, file_path)
        added == add_documents(removed, stamped, {r.id : r \in vector_db})
        partly == add_documents(removed, SubSeq(stamped, 1, k), {r.id : r \in vector_db})
        updated == DictSet(processed_files, file_path,
                           CacheRecord(current_hash, docs, now))
    IN  IF fail = "hash"
        THEN Outcome("error", vector_db, processed_files, cache_file)
        ELSE IF Unchanged(processed_files, file_path, current_hash)
        THEN Outcome("False", vector_db, processed_files, cache_file)
        ELSE IF fail = "delete"
        THEN Outcome("error", vector_db, updated, _save_cache(updated, cache_file, "none"))
        ELSE IF fail = "add"
        THEN Outcome("error", partly, updated, _save_cache(updated, cache_file, "none"))
        ELSE IF fail \in {"open", "write"}
        THEN Outcome("error", added, updated, _save_cache(updated, cache_file, fail))
        ELSE Outcome("True", added, updated, _save_cache(updated, cache_file, "none"))

\* process_document, with _remove_existing_documents logging its error
\* without raising it again: the call goes on to the add.
process_document_swallow(file_path, content, docs, fail, k) ==
    LET current_hash == _get_file_hash(content)
        removed == _remove_existing_documents(vector_db, file_path)
        stamped == Stamped(docs, current_hash, file_path)
        added == add_documents(removed, stamped, {r.id : r \in vector_db})
        partly == add_documents(removed, SubSeq(stamped, 1, k), {r.id : r \in vector_db})
        kept == add_documents(vector_db, stamped, {r.id : r \in vector_db})
        updated == DictSet(processed_files, file_path,
                           CacheRecord(current_hash, docs, now))
    IN  IF fail = "hash"
        THEN Outcome("error", vector_db, processed_files, cache_file)
        ELSE IF Unchanged(processed_files, file_path, current_hash)
        THEN Outcome("False", vector_db, processed_files, cache_file)
        ELSE IF fail = "delete"
        THEN Outcome("True", kept, updated, _save_cache(updated, cache_file, "none"))
        ELSE IF fail = "add"
        THEN Outcome("error", partly, processed_files, cache_file)
        ELSE IF fail \in {"open", "write"}
        THEN Outcome("error", added, updated, _save_cache(updated, cache_file, fail))
        ELSE Outcome("True", added, updated, _save_cache(updated, cache_file, "none"))

\* process_document, inserting the new records before deleting the old.
process_document_add_first(file_path, content, docs, fail, k) ==
    LET current_hash == _get_file_hash(content)
        removed == _remove_existing_documents(vector_db, file_path)
        stamped == Stamped(docs, current_hash, file_path)
        added == add_documents(removed, stamped, {r.id : r \in vector_db})
        partly == add_documents(removed, SubSeq(stamped, 1, k), {r.id : r \in vector_db})
        staged == add_documents(vector_db, SubSeq(stamped, 1, k),
                                {r.id : r \in vector_db})
        updated == DictSet(processed_files, file_path,
                           CacheRecord(current_hash, docs, now))
    IN  IF fail = "hash"
        THEN Outcome("error", vector_db, processed_files, cache_file)
        ELSE IF Unchanged(processed_files, file_path, current_hash)
        THEN Outcome("False", vector_db, processed_files, cache_file)
        ELSE IF fail = "delete"
        THEN Outcome("error", vector_db, processed_files, cache_file)
        ELSE IF fail = "add"
        THEN Outcome("error", staged, processed_files, cache_file)
        ELSE IF fail \in {"open", "write"}
        THEN Outcome("error", added, updated, _save_cache(updated, cache_file, fail))
        ELSE Outcome("True", added, updated, _save_cache(updated, cache_file, "none"))

\* process_document, updating the dict before the store.
process_document_update_first(file_path, content, docs, fail, k) ==
    LET current_hash == _get_file_hash(content)
        removed == _remove_existing_documents(vector_db, file_path)
        stamped == Stamped(docs, current_hash, file_path)
        added == add_documents(removed, stamped, {r.id : r \in vector_db})
        partly == add_documents(removed, SubSeq(stamped, 1, k), {r.id : r \in vector_db})
        updated == DictSet(processed_files, file_path,
                           CacheRecord(current_hash, docs, now))
    IN  IF fail = "hash"
        THEN Outcome("error", vector_db, processed_files, cache_file)
        ELSE IF Unchanged(processed_files, file_path, current_hash)
        THEN Outcome("False", vector_db, processed_files, cache_file)
        ELSE IF fail = "delete"
        THEN Outcome("error", vector_db, updated, cache_file)
        ELSE IF fail = "add"
        THEN Outcome("error", partly, updated, cache_file)
        ELSE IF fail \in {"open", "write"}
        THEN Outcome("error", added, updated, _save_cache(updated, cache_file, fail))
        ELSE Outcome("True", added, updated, _save_cache(updated, cache_file, "none"))

\* process_document(file_path, docs), raising at step `fail` ("none": at no
\* step).  add_documents embeds and inserts the documents; when it raises,
\* the first k of them are in the store (k from none to all).  The dict is
\* updated before the cache file is saved, so a call that raises while
\* saving leaves the store and the dict updated.
process_document(file_path, content, docs, fail, k) ==
    LET current_hash == _get_file_hash(content)
        removed == _remove_existing_documents(vector_db, file_path)
        stamped == Stamped(docs, current_hash, file_path)
        added == add_documents(removed, stamped, {r.id : r \in vector_db})
        partly == add_documents(removed, SubSeq(stamped, 1, k), {r.id : r \in vector_db})
        updated == DictSet(processed_files, file_path,
                           CacheRecord(current_hash, docs, now))
    IN  IF fail = "hash"
        THEN Outcome("error", vector_db, processed_files, cache_file)
        ELSE IF Unchanged(processed_files, file_path, current_hash)
        THEN Outcome("False", vector_db, processed_files, cache_file)
        ELSE IF fail = "delete"
        THEN Outcome("error", vector_db, processed_files, cache_file)
        ELSE IF fail = "add"
        THEN Outcome("error", partly, processed_files, cache_file)
        ELSE IF fail \in {"open", "write"}
        THEN Outcome("error", added, updated, _save_cache(updated, cache_file, fail))
        ELSE Outcome("True", added, updated, _save_cache(updated, cache_file, "none"))

\* clear_all, emptying the cache but not the store.
clear_all_keep_store(fail) ==
    IF fail = "delete"
    THEN Outcome("error", vector_db, processed_files, cache_file)
    ELSE IF fail \in {"open", "write"}
    THEN Outcome("error", vector_db, EmptyDict, _save_cache(EmptyDict, cache_file, fail))
    ELSE Outcome("ok", vector_db, EmptyDict, _save_cache(EmptyDict, cache_file, "none"))

\* clear_all, emptying the store but not the cache.
clear_all_keep_cache(fail) ==
    IF fail = "delete"
    THEN Outcome("error", vector_db, processed_files, cache_file)
    ELSE IF fail \in {"open", "write"}
    THEN Outcome("error", vector_db_delete(vector_db, {r.id : r \in vector_db}),
                 processed_files, _save_cache(processed_files, cache_file, fail))
    ELSE Outcome("ok", vector_db_delete(vector_db, {r.id : r \in vector_db}),
                 processed_files, _save_cache(processed_files, cache_file, "none"))

\* clear_all(), raising at step `fail`.
clear_all(fail) ==
    IF fail = "delete"
    THEN Outcome("error", vector_db, processed_files, cache_file)
    ELSE IF fail \in {"open", "write"}
    THEN Outcome("error", vector_db_delete(vector_db, {r.id : r \in vector_db}),
                 EmptyDict, _save_cache(EmptyDict, cache_file, fail))
    ELSE Outcome("ok", vector_db_delete(vector_db, {r.id : r \in vector_db}),
                 EmptyDict, _save_cache(EmptyDict, cache_file, "none"))

\* get_file_info
get_file_info(file_path) ==
    DictGet(processed_files, file_path, EmptyDict)

\* ----------------------------------------------------------------- history

\* The record of one call: what was called, on what, and how it ended.
\*   n       the documents the call added to the store: the length of its
\*           chunk list if it got past add_documents, the number inserted
\*           if add_documents raised, 0 if it did not get there
\*   hash    the hash the call computed (None if it raised before)
\*   old     the hash of the dict's record for the path when the call began
\*           (None if it had no record)
\*   failed  the step at which the call raised ("none" if it completed)
\*   known   clear_all: the (path, hash) pairs of the dict when it began
Call(op, path, n, hash, ret, failed, old, known) ==
    [op |-> op, path |-> path, n |-> n, hash |-> hash, ret |-> ret,
     failed |-> failed, old |-> old, known |-> known]

NoCall == Call("none", None, 0, None, "none", "none", None, {})

\* What is kept of the call before the last one: whether it was a first
\* successful ingestion of a path ("first", with the path and the hash), a
\* clear_all that completed ("cleared", with the paths it cleared), or
\* anything else ("other").
Summary(c) ==
    IF c.op = "process" /\ c.ret = "True" /\ c.old = None
    THEN Call("first", c.path, 0, c.hash, "none", "none", None, {})
    ELSE IF c.op = "clear" /\ c.ret = "ok"
    THEN Call("cleared", None, 0, None, "none", "none", None, c.known)
    ELSE Call("other", None, 0, None, "none", "none", None, {})

\* ----------------------------------------------------------------- writers

\* A writer between calls: its dict, the result of its last call (None
\* before the first) and the number of calls it has begun.
Idle(pf, ret, calls) ==
    [processed_files |-> pf, pc |-> "idle", file_path |-> None,
     current_hash |-> None, n |-> 0, ret |-> ret, log |-> << >>, calls |-> calls]

\* No add, no save yet.
NoStep == [writer |-> None, path |-> None, hash |-> None, n |-> 0]

\* StepAfter, setting the record before the store is replaced.
StepAfter_set_first(step) ==
    CASE step = "check"  -> "set"
      [] step = "set"    -> "delete"
      [] step = "delete" -> "add"
      [] step = "add"    -> "save"
      [] step = "save"   -> "idle"

\* StepAfter, adding the new records before deleting those of the path.
StepAfter_add_first(step) ==
    CASE step = "check"  -> "add"
      [] step = "add"    -> "delete"
      [] step = "delete" -> "set"
      [] step = "set"    -> "save"
      [] step = "save"   -> "idle"

\* The statement of process_document that follows each one, from the
\* cache check on: delete, add, set the record, save the cache, return.
StepAfter(step) ==
    CASE step = "check"  -> "delete"
      [] step = "delete" -> "add"
      [] step = "add"    -> "set"
      [] step = "set"    -> "save"
      [] step = "save"   -> "idle"

\* ----------------------------------------------------------------- actions

Init ==
    LET loaded == _load_cache(FileAbsent)
    IN  /\ vector_db = {}
        /\ processed_files = loaded.pf
        /\ cache_file = loaded.file
        /\ up = TRUE
        /\ now = 0
        /\ failures = 0
        /\ last = NoCall
        /\ prev = Summary(NoCall)
        /\ managers = [w \in Writers |-> Idle(loaded.pf, None, 0)]
        /\ order = [added |-> NoStep, saved |-> NoStep]

\* A call of process_document on p, whose file holds `content`, with n
\* chunks, that raises at step `fail` ("none": completes); k of the chunks
\* are inserted if it raises at the add.  A call can only raise at a step
\* it gets to.
ProcessDocument(p, content, n, fail, k) ==
    /\ up
    /\ k \in 0..n
    /\ fail # "add" => k = n
    /\ fail # "none" => failures < MaxFailures
    /\ \/ fail \in {"none", "hash"}
       \/ ~Unchanged(processed_files, p, _get_file_hash(content))
    /\ LET r == process_document(p, content, Documents(p, n), fail, k)
       IN  /\ vector_db' = r.db
           /\ processed_files' = r.pf
           /\ cache_file' = r.file
           /\ last' = Call("process", p,
                            IF r.ret = "True" \/ fail \in {"open", "write"} THEN n
                            ELSE IF r.ret = "error" /\ fail = "add" THEN k ELSE 0,
                            IF fail = "hash" THEN None ELSE _get_file_hash(content),
                            r.ret, IF r.ret = "error" THEN fail ELSE "none",
                            DictGet(get_file_info(p), "hash", None), {})
           /\ prev' = Summary(last)
    /\ failures' = IF fail = "none" THEN failures ELSE failures + 1
    /\ UNCHANGED <<up, now, managers, order>>

\* A call of clear_all that raises at step `fail` ("none": completes).
ClearAll(fail) ==
    /\ up
    /\ fail # "none" => failures < MaxFailures
    /\ LET r == clear_all(fail)
       IN  /\ vector_db' = r.db
           /\ processed_files' = r.pf
           /\ cache_file' = r.file
           /\ last' = Call("clear", None, 0, None, r.ret,
                            IF r.ret = "error" THEN fail ELSE "none", None,
                            {<<q, processed_files[q].hash>> : q \in DOMAIN processed_files})
           /\ prev' = Summary(last)
    /\ failures' = IF fail = "none" THEN failures ELSE failures + 1
    /\ UNCHANGED <<up, now, managers, order>>

\* The process ends (or crashes) and a new manager is constructed on the
\* same directory: __init__ loads the cache file.  If the load raises there
\* is no manager.
NewManager ==
    LET loaded == _load_cache(cache_file)
    IN  /\ up' = ~loaded.raised
        /\ processed_files' = IF loaded.raised THEN processed_files ELSE loaded.pf
        /\ cache_file' = loaded.file
        /\ UNCHANGED <<vector_db, now, failures, last, prev, managers, order>>

\* The clock advances.
Tick ==
    /\ now < MaxClock
    /\ now' = now + 1
    /\ UNCHANGED <<vector_db, processed_files, cache_file, up, failures, last, prev,
                   managers, order>>

\* The manager's calls, raising or not, and its re-creation.
Next ==
    \/ \E p \in Paths, c \in Contents, n \in ChunkCounts,
          fail \in ProcessFailures \cup {"none"} :
          \E k \in 0..n : ProcessDocument(p, c, n, fail, k)
    \/ \E fail \in ClearFailures \cup {"none"} : ClearAll(fail)
    \/ NewManager

Spec == Init /\ [][Next]_vars

\* The calls that complete, the manager's re-creation, and the clock.
NextClock ==
    \/ \E p \in Paths, c \in Contents, n \in ChunkCounts :
          ProcessDocument(p, c, n, "none", n)
    \/ ClearAll("none")
    \/ NewManager
    \/ Tick

SpecClock == Init /\ [][NextClock]_vars

\* ------------------------------------------------------- writers' steps

\* The variables of the single manager, which the writers leave alone.
single == <<processed_files, up, now, failures, last, prev>>

\* The calls the writers have begun.
CallsBegun ==
    managers["w1"].calls + managers["w2"].calls

\* Writer w calls process_document(p, docs) with n chunks and finds
\* `content` in the file: lines 72-78.  It returns False at once, or goes
\* on to the replace.
Begin(w, p, content, n) ==
    LET m == managers[w]
        current_hash == _get_file_hash(content)
    IN  /\ m.pc = "idle"
        /\ CallsBegun < MaxCalls
        /\ managers' = [managers EXCEPT ![w] =
              IF Unchanged(m.processed_files, p, current_hash)
              THEN Idle(m.processed_files, "False", m.calls + 1)
              ELSE [m EXCEPT !.pc = StepAfter("check"), !.file_path = p,
                             !.current_hash = current_hash, !.n = n,
                             !.ret = None, !.log = << >>, !.calls = m.calls + 1]]
        /\ UNCHANGED <<vector_db, cache_file, order, single>>

\* Line 81: the records of the path are deleted from the store.
Remove(w) ==
    LET m == managers[w]
    IN  /\ m.pc = "delete"
        /\ vector_db' = _remove_existing_documents(vector_db, m.file_path)
        /\ managers' = [managers EXCEPT ![w] =
              [m EXCEPT !.pc = StepAfter("delete"), !.log = Append(m.log, "delete")]]
        /\ UNCHANGED <<cache_file, order, single>>

\* Lines 84-89: the documents are stamped and added to the store.
Add(w) ==
    LET m == managers[w]
        docs == Stamped(Documents(m.file_path, m.n), m.current_hash, m.file_path)
    IN  /\ m.pc = "add"
        /\ vector_db' = add_documents(vector_db, docs, {r.id : r \in vector_db})
        /\ managers' = [managers EXCEPT ![w] =
              [m EXCEPT !.pc = StepAfter("add"), !.log = Append(m.log, "add")]]
        /\ order' = [order EXCEPT !.added =
              [writer |-> w, path |-> m.file_path, hash |-> m.current_hash, n |-> m.n]]
        /\ UNCHANGED <<cache_file, single>>

\* Lines 92-96: the record of the path is set in the writer's dict.
SetRecord(w) ==
    LET m == managers[w]
    IN  /\ m.pc = "set"
        /\ managers' = [managers EXCEPT ![w] =
              [m EXCEPT !.pc = StepAfter("set"), !.log = Append(m.log, "set"),
                        !.processed_files =
                            DictSet(m.processed_files, m.file_path,
                                    CacheRecord(m.current_hash,
                                                Documents(m.file_path, m.n), now))]]
        /\ UNCHANGED <<vector_db, cache_file, order, single>>

\* Lines 97-100: the writer's dict is saved to the cache file, and the call
\* returns True.
Save(w) ==
    LET m == managers[w]
        after == StepAfter("save")
    IN  /\ m.pc = "save"
        /\ cache_file' = _save_cache(m.processed_files, cache_file, "none")
        /\ managers' = [managers EXCEPT ![w] =
              [m EXCEPT !.pc = after, !.log = Append(m.log, "save"),
                        !.ret = IF after = "idle" THEN "True" ELSE None]]
        /\ order' = [order EXCEPT !.saved =
              [writer |-> w, path |-> m.file_path, hash |-> m.current_hash, n |-> m.n]]
        /\ UNCHANGED <<vector_db, single>>

\* The statements of the writers' calls, interleaved: the writers share the
\* store and the cache file and nothing else, and no lock is taken.
NextWriters ==
    \E w \in Writers :
        \/ \E p \in Paths, c \in Contents, n \in ChunkCounts : Begin(w, p, c, n)
        \/ Remove(w)
        \/ Add(w)
        \/ SetRecord(w)
        \/ Save(w)

SpecWriters == Init /\ [][NextWriters]_vars

\* ------------------------------------------------------------------ claims

\* I4 for path p: every record of the store for p carries the hash of the
\* dict's record for p.
I4(db, pf, p) ==
    \A r \in RecordsOf(db, p) : DictGet(r.metadata, "file_hash", None) = CacheHash(pf, p)

I4All ==
    \A p \in Paths : I4(vector_db, processed_files, p)

\* The number of records the store holds for p.
Count(db, p) ==
    Cardinality(RecordsOf(db, p))

\* I4 for the paths that have a cache record: no record of the store
\* carries another hash than the cache record of its path.
I4Known ==
    \A p \in DOMAIN processed_files : I4(vector_db, processed_files, p)

\* This step is the call ProcessDocument(p, c, n, fail, k).  The conjuncts
\* on the call's record follow from the action.
ProcessStep(p, c, n, fail, k) ==
    /\ last'.op = "process" /\ last'.path = p /\ last'.failed = fail
    /\ fail # "hash" => last'.hash = _get_file_hash(c)
    /\ last'.n \in {0, k}
    /\ ProcessDocument(p, c, n, fail, k)

\* This step is a call of process_document on p that completes.
CompletedStep(p, c, n) ==
    ProcessStep(p, c, n, "none", n)

\* This step is a call of process_document, of any path, raising or not,
\* that found content c and was handed n chunks.
AnyProcessStep(c, n) ==
    /\ last'.op = "process"
    /\ \E k \in 0..n : ProcessStep(last'.path, c, n, last'.failed, k)

\* This step is a call of clear_all, raising or not.
AnyClearStep ==
    /\ last'.op = "clear"
    /\ ClearAll(last'.failed)

\* What a manager constructed now would load from the cache file.
FreshLoad ==
    _load_cache(cache_file)

\* C1: as long as every call has completed without error, every record of
\* the store for a path carries the hash of the cache record of that path.
C1_NoOrphanLeakage ==
    failures = 0 => I4All

\* A changed file has been ingested again, no call has raised, and the
\* store holds its records.
C1_Witness ==
    /\ failures = 0
    /\ last.op = "process" /\ last.ret = "True"
    /\ last.old \notin {None, last.hash}
    /\ RecordsOf(vector_db, last.path) # {}

\* C2: a completed call on a path without a cache record returns True; and
\* the call that follows such a first ingestion, on the same path with the
\* file's content as it was, returns False, and the store holds as many
\* records for the path after it as before it.
C2_Idempotent ==
    [][\A p \in Paths, c \in Contents, n \in ChunkCounts :
          /\ (get_file_info(p) = EmptyDict /\ CompletedStep(p, c, n))
                => last'.ret = "True"
          /\ ( /\ last.op = "process" /\ last.ret = "True" /\ last.old = None
               /\ last.path = p /\ last.hash = _get_file_hash(c)
               /\ CompletedStep(p, c, n) )
             => /\ last'.ret = "False"
                /\ Count(vector_db', p) = Count(vector_db, p)]_vars

\* The second of two such calls has returned.
C2_Witness ==
    /\ prev.op = "first"
    /\ last.op = "process" /\ last.path = prev.path /\ last.hash = prev.hash
    /\ last.ret = "False"
    /\ RecordsOf(vector_db, last.path) # {}

\* C3: a call that returns False leaves the store, the dict and the cache
\* file as they were.
C3_SkipChangesNothing ==
    [][\A p \in Paths, c \in Contents, n \in ChunkCounts :
          (CompletedStep(p, c, n) /\ last'.ret = "False")
          => UNCHANGED <<vector_db, processed_files, cache_file>>]_vars

\* A call has returned False with records of both paths in the store.
C3_Witness ==
    /\ last.op = "process" /\ last.ret = "False"
    /\ \A p \in Paths : RecordsOf(vector_db, p) # {}

\* C4: a completed call on a path whose cache record holds another hash
\* than the file's returns True and leaves exactly its n chunks in the
\* store for the path, all under the new hash and none under the old one.
C4_ChangeTriggersReplace ==
    ( /\ last.op = "process" /\ last.failed = "none"
      /\ last.old \notin {None, last.hash} )
    => /\ last.ret = "True"
       /\ Count(vector_db, last.path) = last.n
       /\ \A r \in RecordsOf(vector_db, last.path) :
             DictGet(r.metadata, "file_hash", None) = last.hash
       /\ ~ \E r \in RecordsOf(vector_db, last.path) :
             DictGet(r.metadata, "file_hash", None) = last.old

\* A changed file has been ingested again with at least one chunk.
C4_Witness ==
    /\ last.op = "process" /\ last.ret = "True"
    /\ last.old \notin {None, last.hash}
    /\ last.n >= 1
    /\ Count(vector_db, last.path) = last.n

\* C5: after a call has returned True, the dict and the cache file hold for
\* the path a record with the hash the call computed and the length of its
\* chunk list.
C5_CacheRecorded ==
    (last.op = "process" /\ last.ret = "True")
    => /\ last.path \in DOMAIN processed_files
       /\ processed_files[last.path].hash = last.hash
       /\ processed_files[last.path].num_chunks = last.n
       /\ cache_file.state = "ok"
       /\ \E m \in cache_file.text :
             m[1] = last.path /\ m[2] = last.hash /\ m[3] = last.n

\* A call has returned True with chunks, and the file holds its record.
C5_Witness ==
    /\ last.op = "process" /\ last.ret = "True" /\ last.n >= 1
    /\ cache_file.state = "ok"
    /\ \E m \in cache_file.text : m[1] = last.path

\* C6: once clear_all has completed the store is empty and a fresh load of
\* the cache file gives the empty dict; and the call of process_document
\* that follows, if it completes, returns True.
C6_ClearAllIsTotal ==
    [][ /\ (last'.op = "clear" /\ last'.ret = "ok")
            => /\ vector_db' = {}
               /\ ~ _load_cache(cache_file').raised
               /\ _load_cache(cache_file').pf = EmptyDict
        /\ \A p \in Paths, c \in Contents, n \in ChunkCounts :
              ( /\ last.op = "clear" /\ last.ret = "ok"
                /\ CompletedStep(p, c, n) )
              => last'.ret = "True" ]_vars

\* After a clear_all, a path that was known has been ingested again with
\* the content it was known under.
C6_Witness ==
    /\ prev.op = "cleared"
    /\ last.op = "process" /\ last.ret = "True"
    /\ <<last.path, last.hash>> \in prev.known

\* C7: a call with an empty chunk list on a path without a cache record
\* returns True, adds no record to the store, and leaves a cache record
\* with num_chunks 0 and the file's hash.
C7_EmptyChunkList ==
    [][\A p \in Paths, c \in Contents :
          (get_file_info(p) = EmptyDict /\ CompletedStep(p, c, 0))
          => /\ last'.ret = "True"
             /\ vector_db' \subseteq vector_db
             /\ RecordsOf(vector_db', p) = {}
             /\ p \in DOMAIN processed_files'
             /\ processed_files'[p].num_chunks = 0
             /\ processed_files'[p].hash = _get_file_hash(c)]_vars

\* An empty chunk list has been ingested for a path without a record.
C7_Witness ==
    /\ last.op = "process" /\ last.ret = "True" /\ last.old = None /\ last.n = 0
    /\ processed_files[last.path].num_chunks = 0

\* C8: after a call has set a record and saved the cache, a fresh manager
\* loads a dict equal to the one in memory, and its record for the path has
\* the same hash, num_chunks and last_processed.
C8_RoundTrip ==
    (last.op = "process" /\ last.ret = "True")
    => /\ ~ FreshLoad.raised
       /\ FreshLoad.pf = processed_files
       /\ last.path \in DOMAIN FreshLoad.pf
       /\ FreshLoad.pf[last.path].hash = processed_files[last.path].hash
       /\ FreshLoad.pf[last.path].num_chunks = processed_files[last.path].num_chunks
       /\ FreshLoad.pf[last.path].last_processed
             = processed_files[last.path].last_processed

\* Two records with different times of processing have been saved.
C8_Witness ==
    /\ last.op = "process" /\ last.ret = "True"
    /\ DOMAIN processed_files = Paths
    /\ \E p, q \in Paths :
          processed_files[p].last_processed # processed_files[q].last_processed
    /\ FreshLoad.pf = processed_files

\* C9 as claimed: with a manager in place, no record of the store carries
\* another hash than the cache record of its path, whatever calls failed.
C9_I4AtRest ==
    up => I4Known

\* C9 amended: a call of the manager that starts with I4 holding against
\* the dict in memory ends with I4 holding, whether it completes or fails at
\* hashing, delete or the cache persist, or at the add before any chunk was
\* inserted; it breaks I4 exactly when it fails at the add after inserting
\* chunks.
C9_CallsPreserveI4 ==
    [][ ( /\ I4All
          /\ \/ \E c \in Contents, n \in ChunkCounts : AnyProcessStep(c, n)
             \/ AnyClearStep )
        => (I4All' <=> ~(last'.failed = "add" /\ last'.n > 0)) ]_vars

\* A call that replaced the records of a path has failed at the cache
\* persist, and I4 holds.
C9_Witness ==
    /\ up
    /\ last.op = "process" /\ last.failed = "open" /\ last.old # None
    /\ RecordsOf(vector_db, last.path) # {}
    /\ I4All

\* C10 as claimed: a call that ends in an error leaves the dict's record
\* for its path as it was.
C10_ErrorKeepsRecord ==
    [][\A c \in Contents, n \in ChunkCounts :
          (AnyProcessStep(c, n) /\ last'.ret = "error")
          => DictGet(processed_files', last'.path, EmptyDict)
                = get_file_info(last'.path)]_vars

\* C10 amended: a call changes the dict's record for its path only once the
\* store has been replaced: a call that fails at hashing, delete or add
\* leaves the dict as it was, and one that fails at the cache persist has
\* set the new record.
C10_RecordSetAfterReplace ==
    [][\A c \in Contents, n \in ChunkCounts :
          AnyProcessStep(c, n)
          => /\ last'.failed \in {"hash", "delete", "add"}
                   => processed_files' = processed_files
             /\ last'.failed \in {"open", "write"}
                   => processed_files'[last'.path]
                         = CacheRecord(_get_file_hash(c), Documents(last'.path, n), now)
             /\ DictGet(processed_files', last'.path, EmptyDict) # get_file_info(last'.path)
                   => last'.ret = "True" \/ last'.failed \in {"open", "write"}]_vars

\* A call on a path with a cache record has failed at the add, and the
\* record is the old one.
C10_Witness ==
    /\ last.op = "process" /\ last.failed = "add" /\ last.old # None
    /\ CacheHash(processed_files, last.path) = last.old

\* This step is a call of process_document on p that raises at step `fail`.
FailedStep(p, c, n, fail, k) ==
    /\ failures' = failures + 1
    /\ last'.op = "process" /\ last'.path = p
    /\ ProcessDocument(p, c, n, fail, k)

\* C11: a call that raises before the cache persist (at hashing, at the
\* delete or at the add) leaves the cache file as it was, so that a manager
\* created afterwards loads what one created before the call would have.
C11_FailureKeepsCacheFile ==
    [][\A c \in Contents, n \in ChunkCounts :
          (AnyProcessStep(c, n) /\ last'.failed \in {"hash", "delete", "add"})
          => /\ cache_file' = cache_file
             /\ _load_cache(cache_file') = _load_cache(cache_file)]_vars

\* A call on a path with a persisted record has raised at the delete or at
\* the add, and the file still loads with the record of before the call.
C11_Witness ==
    /\ last.op = "process" /\ last.failed \in {"delete", "add"} /\ last.old # None
    /\ ~ FreshLoad.raised
    /\ CacheHash(FreshLoad.pf, last.path) = last.old

\* C12: a call in which a step fails ends in an error, never in True or
\* False; and one that fails at hashing leaves the store, the dict and the
\* cache file as they were.
C12_FailuresPropagate ==
    [][\A p \in Paths, c \in Contents, n \in ChunkCounts, fail \in ProcessFailures :
          \A k \in 0..n :
             FailedStep(p, c, n, fail, k)
             => /\ last'.ret = "error"
                /\ last'.failed = fail
                /\ fail = "hash"
                      => UNCHANGED <<vector_db, processed_files, cache_file>>]_vars

\* A call has raised at the delete with records of its path in the store.
C12_Witness ==
    /\ last.op = "process" /\ last.ret = "error" /\ last.failed = "delete"
    /\ RecordsOf(vector_db, last.path) # {}

\* C13: constructing a manager on a cache file that does not parse raises:
\* no manager results, and the file is left as it is.
C13_CorruptCachePropagates ==
    [][(cache_file.state = "corrupt" /\ NewManager)
          => /\ ~ up'
             /\ cache_file' = cache_file
             /\ _load_cache(cache_file').raised]_vars

\* The construction of a manager has raised on a corrupt cache file.
C13_Witness ==
    /\ ~ up
    /\ cache_file.state = "corrupt"
    /\ last.failed = "write"

\* C15: a call that returns True leaves exactly its n chunks in the store
\* for the path, whatever records the store held for the path and whatever
\* the cache said of it, and none of them is a record, or has the id of a
\* record, that was in the store before the call.
C15_ReplaceRemovesAllPrior ==
    [][\A p \in Paths, c \in Contents, n \in ChunkCounts :
          (CompletedStep(p, c, n) /\ last'.ret = "True")
          => /\ Count(vector_db', p) = n
             /\ RecordsOf(vector_db', p) \cap vector_db = {}
             /\ \A r \in RecordsOf(vector_db', p) :
                   r.id \notin {x.id : x \in vector_db}]_vars

\* A call on a path without a cache record has returned True with the
\* store holding records of the path when it began: the ids it drew are of
\* a later generation than the first, which uuid4 draws only while ids of
\* the path are in use.
C15_Witness ==
    /\ last.op = "process" /\ last.ret = "True" /\ last.old = None
    /\ \E r \in RecordsOf(vector_db, last.path) : r.id[2] >= 1

\* C16: a call that raises at the add before any chunk is inserted leaves
\* no record of its path in the store, and the dict and the cache file as
\* they were.
C16_FailedAddLeavesNothing ==
    [][\A c \in Contents, n \in ChunkCounts :
          (AnyProcessStep(c, n) /\ last'.failed = "add" /\ last'.n = 0)
          => /\ Count(vector_db', last'.path) = 0
             /\ UNCHANGED <<processed_files, cache_file>>]_vars

\* With no call in progress, the store holds no record of a path whose
\* cache record, in memory and on disk, still tells of chunks.
C16_Witness ==
    /\ up
    /\ last.op = "process" /\ last.failed = "add" /\ last.old # None
    /\ Count(vector_db, last.path) = 0
    /\ processed_files[last.path].num_chunks > 0
    /\ processed_files[last.path].hash = last.old
    /\ FreshLoad.pf = processed_files

\* C18: a call of process_document on a path, whether it returns True or
\* False or raises, leaves the store's records of every other path and the
\* dict's record of every other path as they were.
C18_CrossPathIsolation ==
    [][\A c \in Contents, n \in ChunkCounts :
          AnyProcessStep(c, n)
          => \A q \in Paths \ {last'.path} :
                /\ RecordsOf(vector_db', q) = RecordsOf(vector_db, q)
                /\ DictGet(processed_files', q, EmptyDict)
                      = DictGet(processed_files, q, EmptyDict)]_vars

\* A call has replaced the records of its path while the store and the
\* dict hold records of the other path.
C18_Witness ==
    /\ last.op = "process" /\ last.ret = "True" /\ last.old # None /\ last.n >= 1
    /\ \E q \in Paths \ {last.path} :
          /\ RecordsOf(vector_db, q) # {}
          /\ q \in DOMAIN processed_files

\* C19: as long as no call has raised, the store holds for every path with
\* a cache record as many records as the record's num_chunks, and none for
\* a path without a cache record.
C19_ChunkCountConsistent ==
    failures = 0
    => \A p \in Paths :
          Count(vector_db, p) = IF p \in DOMAIN processed_files
                                THEN processed_files[p].num_chunks
                                ELSE 0

\* After a clear_all, one path has been ingested again with chunks; the
\* other has no record.
C19_Witness ==
    /\ failures = 0
    /\ prev.op = "cleared" /\ prev.known # {}
    /\ last.op = "process" /\ last.ret = "True" /\ last.n >= 1
    /\ DOMAIN processed_files = {last.path}

ReplaceOrder == <<"delete", "add", "set", "save">>

IsPrefix(a, b) ==
    Len(a) <= Len(b) /\ a = SubSeq(b, 1, Len(a))

\* No writer is in a call.
AllIdle ==
    \A w \in Writers : managers[w].pc = "idle"

\* C14: the steps a call has taken are, at any moment, the first ones of
\* delete, add, set, save, in this order; a call that has returned True has
\* taken all four, the save once; a call that has returned False has taken
\* none.  The dict holds the new hash for the path only from the set on.
C14_StepOrder ==
    \A w \in Writers :
        LET m == managers[w]
        IN  /\ IsPrefix(m.log, ReplaceOrder)
            /\ m.ret = "True" => m.log = ReplaceOrder
            /\ m.ret = "False" => m.log = << >>
            /\ m.pc # "idle" => m.log = SubSeq(ReplaceOrder, 1, Len(m.log))
            /\ m.pc \in {"delete", "add", "set"}
                  => CacheHash(m.processed_files, m.file_path) # m.current_hash
            /\ m.pc = "save"
                  => CacheHash(m.processed_files, m.file_path) = m.current_hash

\* A writer has replaced a changed file (its second call on the path has
\* returned True) and the other writer's last call has returned False.
C14_Witness ==
    \E w, v \in Writers :
        /\ managers[w].calls = 2 /\ managers[w].ret = "True"
        /\ managers[w].log = ReplaceOrder
        /\ RecordsOf(vector_db, managers[w].file_path) # {}
        /\ managers[v].ret = "False"

\* C17: with two writers, each resource goes to the writer that wrote it
\* last: the cache file holds for the path of the last save the hash of
\* that save, and once no call is in progress the store holds the chunks of
\* the last add under the hash of that add.  Nothing makes the two the
\* same writer.
C17_LastWriterWins ==
    /\ order.saved.writer # None
          => CacheHash(FreshLoad.pf, order.saved.path) = order.saved.hash
    /\ (AllIdle /\ order.added.writer # None)
          => Cardinality({r \in RecordsOf(vector_db, order.added.path) :
                            DictGet(r.metadata, "file_hash", None) = order.added.hash})
                >= order.added.n

\* Both writers have made one call, on the same path, each with another
\* hash; both calls have returned True, and the store holds a record of the
\* path whose hash is not the one of the persisted cache record.
C17_Witness ==
    /\ AllIdle
    /\ \A w \in Writers : managers[w].calls = 1 /\ managers[w].ret = "True"
    /\ managers["w1"].file_path = managers["w2"].file_path
    /\ managers["w1"].current_hash # managers["w2"].current_hash
    /\ \E r \in RecordsOf(vector_db, managers["w1"].file_path) :
          DictGet(r.metadata, "file_hash", None)
             # CacheHash(FreshLoad.pf, managers["w1"].file_path)

====
